---- MODULE Spec2Model ----
(***************************************************************************)
(* Care Insight (src/app.py): a Flask service that loads one classifier    *)
(* and three text vectorizers at import time and answers /predict, /health *)
(* and / requests from worker threads.                                     *)
(*                                                                         *)
(* Strings are modelled after tokenisation, as sequences of words; a       *)
(* sparse matrix is the sequence of its rows.  The serialized artifacts    *)
(* (the .pkl files) are opaque to the source: a vectorizer is modelled as *)
(* a vocabulary, the classifier as a fixed linear decision rule over a     *)
(* fixed input width.                                                      *)
(***************************************************************************)
EXTENDS Integers, Sequences, FiniteSets, TLC

\* Longest document (in words) a client puts in one field.
MaxDocLen == 2

Threads == {"t1", "t2"}

(***************************************************************************)
(* Python values                                                           *)
(***************************************************************************)
None == [type |-> "NoneType"]
Str(toks) == [type |-> "str", tokens |-> toks]
Unbound == [type |-> "unbound"]
EmptyDict == [k \in {} |-> None]

Ok(v) == [ok |-> TRUE, value |-> v]
Raise(exc) == [ok |-> FALSE, exc |-> exc]

\* dict.get(key, default)
DictGet(d, k, default) == IF k \in DOMAIN d THEN d[k] ELSE default

(***************************************************************************)
(* Artifacts on disk                                                       *)
(***************************************************************************)
Files == {"svm_model.pkl", "gene_vector.pkl", "variation_vector.pkl", "text_vector.pkl"}
Missing == [type |-> "missing"]

Vectorizer(vocab) == [type |-> "vectorizer", vocabulary |-> vocab]
GeneArtifact == Vectorizer(<<"brca1">>)
VariationArtifact == Vectorizer(<<"v600e", "g12d">>)
TextArtifact == Vectorizer(<<"brca1", "v600e", "cancer">>)

Svm(n, coef, classes) ==
    [type |-> "svm", n_features_in |-> n, coef |-> coef, classes |-> classes]
\* fit on the nine training classes
SvmArtifact == Svm(6, <<1, 2, 0, 0, 0, 4>>, <<1, 2, 3, 4, 5, 6, 7, 8, 9>>)
\* fit on a label set the table does not cover
SvmOtherLabels == Svm(6, <<1, 2, 0, 0, 0, 4>>, <<0, 10, 9, 12>>)
\* fit with another set of encoders (one column fewer)
SvmSkewed == Svm(5, <<1, 2, 0, 0, 4>>, <<1, 2, 3, 4, 5, 6, 7, 8, 9>>)

DiskImages ==
    { [f \in Files |->
         CASE f = "svm_model.pkl" -> m
           [] f = "gene_vector.pkl" -> g
           [] f = "variation_vector.pkl" -> v
           [] OTHER -> x] :
      m \in {Missing, SvmArtifact, SvmOtherLabels, SvmSkewed},
      g \in {Missing, GeneArtifact},
      v \in {Missing, VariationArtifact},
      x \in {Missing, TextArtifact} }

\* joblib.load(path): the object, or an exception for a missing/corrupt file
JoblibLoadLenient(d, f) == IF d[f] = Missing THEN Ok(None) ELSE Ok(d[f])
JoblibLoad(d, f) == IF d[f] = Missing THEN Raise("FileNotFoundError") ELSE Ok(d[f])

(***************************************************************************)
(* Vectorizers, hstack and the classifier                                  *)
(***************************************************************************)
RECURSIVE Count(_, _)
Count(w, toks) ==
    IF toks = <<>> THEN 0
    ELSE (IF Head(toks) = w THEN 1 ELSE 0) + Count(w, Tail(toks))

\* vectorizer.transform([raw]): a 1 x |vocabulary| matrix of word counts;
\* words outside the vocabulary are dropped; a non-string document raises.
Transform(vec, raw) ==
    IF vec.type # "vectorizer" THEN Raise("AttributeError")
    ELSE IF raw.type # "str" THEN Raise("AttributeError")
    ELSE Ok(<< [j \in 1..Len(vec.vocabulary) |-> Count(vec.vocabulary[j], raw.tokens)] >>)

\* an online vectorizer: words of raw not yet known get new columns
RECURSIVE Learn(_, _)
Learn(vocab, toks) ==
    IF toks = <<>> THEN vocab
    ELSE Learn(IF Count(Head(toks), vocab) = 0 THEN Append(vocab, Head(toks)) ELSE vocab,
               Tail(toks))
PartialFit(vec, raw) ==
    IF vec.type # "vectorizer" \/ raw.type # "str" THEN vec
    ELSE Vectorizer(Learn(vec.vocabulary, raw.tokens))

Width(vec) == Len(vec.vocabulary)

\* scipy.sparse.hstack(blocks) of one-row blocks
RECURSIVE Hstack(_)
Hstack(blocks) ==
    IF blocks = <<>> THEN << <<>> >>
    ELSE << Head(blocks)[1] \o Hstack(Tail(blocks))[1] >>

RECURSIVE Dot(_, _)
Dot(a, b) == IF a = <<>> THEN 0 ELSE Head(a) * Head(b) + Dot(Tail(a), Tail(b))

\* model.predict(X): one label per row; a wrong column count raises
ModelPredict(m, X) ==
    IF m.type # "svm" THEN Raise("AttributeError")
    ELSE IF Len(X[1]) # m.n_features_in THEN Raise("ValueError")
    ELSE Ok([i \in 1..Len(X) |-> m.classes[(Dot(m.coef, X[i]) % Len(m.classes)) + 1]])

\* line 98
AssembleSwapped(g, v, x) == Hstack(<<v, g, x>>)
Assemble(g, v, x) == Hstack(<<g, v, x>>)

(***************************************************************************)
(* The recommendation table, lines 15-52                                   *)
(***************************************************************************)
Rec(t, u) == [text |-> t, url |-> u]

TreatmentMapShifted ==
    [l \in 1..9 |->
        CASE l = 1 -> Rec("Targeted therapy (e.g., kinase inhibitors); if unavailable, use conventional therapy.",
                          "https://www.cancer.gov/about-cancer/treatment/types/targeted-therapies")
          [] OTHER -> Rec("Neutral mutation; follow standard treatment protocols.",
                          "https://www.ncbi.nlm.nih.gov/pmc/articles/PMC4640069/")]

TreatmentMapLiteral ==
    [l \in 1..9 |->
        CASE l = 1 -> Rec("Standard therapy; consider immunotherapy or PARP inhibitors if BRCA-mutated.",
                          "https://www.ncbi.nlm.nih.gov/pmc/articles/PMC7405942/")
          [] l = 2 -> Rec("Targeted therapy (e.g., kinase inhibitors); if unavailable, use conventional therapy.",
                          "https://www.cancer.gov/about-cancer/treatment/types/targeted-therapies")
          [] l = 3 -> Rec("Neutral mutation; follow standard treatment protocols.",
                          "https://www.ncbi.nlm.nih.gov/pmc/articles/PMC4640069/")
          [] l = 4 -> Rec("Confirmed Loss-of-Function; standard care or synthetic lethality strategies.",
                          "https://www.nature.com/articles/nrc.2016.128")
          [] l = 5 -> Rec("Likely neutral; treat based on tumor type and stage.",
                          "https://www.ncbi.nlm.nih.gov/pmc/articles/PMC8806427/")
          [] l = 6 -> Rec("Uncertain significance; do not change treatment, monitor patient.",
                          "https://www.ncbi.nlm.nih.gov/pmc/articles/PMC6947910/")
          [] l = 7 -> Rec("Confirmed Gain-of-Function; apply targeted inhibitors if available.",
                          "https://www.ncbi.nlm.nih.gov/pmc/articles/PMC6231376/")
          [] l = 8 -> Rec("Likely Switch-of-Function; consider experimental or standard therapy.",
                          "https://www.ncbi.nlm.nih.gov/pmc/articles/PMC6950540/")
          [] OTHER -> Rec("Confirmed Switch-of-Function; use available neomorphic-targeted drugs.",
                          "https://www.frontiersin.org/articles/10.3389/fgene.2022.909402/full")]

(***************************************************************************)
(* Requests                                                                *)
(***************************************************************************)
\* the first n words of ws repeated over and over
Prefix(ws, n) == [i \in 1..n |-> ws[((i - 1) % Len(ws)) + 1]]
\* a gene symbol and a variation code are one word or empty; the clinical
\* text is free text of up to MaxDocLen words ("history" is in no vocabulary)
GeneDocs == {Str(<<>>), Str(<<"brca1">>)}
VariationDocs == {Str(<<>>), Str(<<"v600e">>)}
TextDocs == {Str(Prefix(<<"cancer", "history">>, n)) : n \in 0..MaxDocLen}

Json3(k1, k2, k3, g, v, x) == (k1 :> g) @@ (k2 :> v) @@ (k3 :> x)
Restrict(f, S) == [k \in S |-> f[k]]

\* bodies whose keys are the ones predict reads, any of them possibly absent
ReadKeys == {"gene", "variation", "text"}
ReadPayloads ==
    { Restrict(Json3("gene", "variation", "text", g, v, x), S) :
        g \in GeneDocs, v \in VariationDocs, x \in TextDocs, S \in SUBSET ReadKeys }

\* bodies shaped as the documentation page describes them, lines 70-79
DocumentedPayloads ==
    { Json3("input1", "input2", "input3", Str(<<"brca1">>), Str(<<"v600e">>), x) :
        x \in TextDocs }

Payloads == ReadPayloads \cup DocumentedPayloads

PredictRequest(json) == [path |-> "/predict", json |-> json]
HealthRequest == [path |-> "/health"]
HomeRequest == [path |-> "/"]

Pending == [status |-> 0]
Response(body) == [status |-> 200, body |-> body]
\* Flask turns an exception that leaves a view into a 500 response
ServerError(exc) == [status |-> 500, error |-> exc]

NoContext == [path |-> "none"]
NoConn == [request |-> NoContext, response |-> Pending]

Idle == [pc |-> "idle"]
NewFrame ==
    [pc |-> "L90", gene |-> Unbound, variation |-> Unbound, text |-> Unbound,
     gene_vector |-> Unbound, variation_vector |-> Unbound, text_vector |-> Unbound,
     input_vector |-> Unbound, prediction |-> Unbound]

Call(callee, arg, res) ==
    [callee |-> callee, arg |-> arg, ok |-> res.ok,
     ret |-> IF res.ok THEN res.value ELSE None]

VARIABLES
    disk,                 \* the artifact files in the working directory
    pc,                   \* position of the main thread in the module body
    model, gene_vectorizer, variation_vectorizer, text_vectorizer,
    treatment_map,        \* module globals
    loads,                \* number of joblib.load calls per file
    ctx,                  \* Flask request context of each worker thread
    frames,               \* locals of predict() in each worker thread
    conn,                 \* each worker's client connection: request and response
    trace                 \* calls made on the artifacts for the current request

globals == <<model, gene_vectorizer, variation_vectorizer, text_vectorizer, treatment_map>>
workers == <<ctx, frames, conn, trace>>
vars == <<disk, pc, globals, loads, workers>>

Init ==
    /\ disk \in DiskImages
    /\ pc = "L9"
    /\ model = Unbound
    /\ gene_vectorizer = Unbound
    /\ variation_vectorizer = Unbound
    /\ text_vectorizer = Unbound
    /\ treatment_map = Unbound
    /\ loads = [f \in Files |-> 0]
    /\ ctx = [t \in Threads |-> NoContext]
    /\ frames = [t \in Threads |-> Idle]
    /\ conn = [t \in Threads |-> NoConn]
    /\ trace = [t \in Threads |-> <<>>]

(***************************************************************************)
(* Startup: the module body, lines 6-52, then __main__, lines 119-122      *)
(***************************************************************************)
\* A load that raises ends the import and with it the process.
LoadStep(here, file, next) ==
    /\ pc = here
    /\ loads' = [loads EXCEPT ![file] = @ + 1]
    /\ pc' = IF JoblibLoad(disk, file).ok THEN next ELSE "exited"

LoadModel ==
    /\ LoadStep("L9", "svm_model.pkl", "L10")
    /\ model' = IF JoblibLoad(disk, "svm_model.pkl").ok
                THEN JoblibLoad(disk, "svm_model.pkl").value ELSE model
    /\ UNCHANGED <<disk, gene_vectorizer, variation_vectorizer, text_vectorizer,
                   treatment_map, workers>>

LoadGeneVectorizer ==
    /\ LoadStep("L10", "gene_vector.pkl", "L11")
    /\ gene_vectorizer' = IF JoblibLoad(disk, "gene_vector.pkl").ok
                          THEN JoblibLoad(disk, "gene_vector.pkl").value
                          ELSE gene_vectorizer
    /\ UNCHANGED <<disk, model, variation_vectorizer, text_vectorizer,
                   treatment_map, workers>>

LoadVariationVectorizer ==
    /\ LoadStep("L11", "variation_vector.pkl", "L12")
    /\ variation_vectorizer' = IF JoblibLoad(disk, "variation_vector.pkl").ok
                               THEN JoblibLoad(disk, "variation_vector.pkl").value
                               ELSE variation_vectorizer
    /\ UNCHANGED <<disk, model, gene_vectorizer, text_vectorizer,
                   treatment_map, workers>>

LoadTextVectorizer ==
    /\ LoadStep("L12", "text_vector.pkl", "L15")
    /\ text_vectorizer' = IF JoblibLoad(disk, "text_vector.pkl").ok
                          THEN JoblibLoad(disk, "text_vector.pkl").value
                          ELSE text_vectorizer
    /\ UNCHANGED <<disk, model, gene_vectorizer, variation_vectorizer,
                   treatment_map, workers>>

BuildTreatmentMap ==
    /\ pc = "L15"
    /\ treatment_map' = TreatmentMapLiteral
    /\ pc' = "L119"
    /\ UNCHANGED <<disk, model, gene_vectorizer, variation_vectorizer,
                   text_vectorizer, loads, workers>>

\* app.run(...): from here on worker threads take requests
RunApp ==
    /\ pc = "L119"
    /\ pc' = "serving"
    /\ UNCHANGED <<disk, globals, loads, workers>>

(***************************************************************************)
(* Request handling in a worker thread                                     *)
(***************************************************************************)
\* flask.request: a proxy bound to the calling thread's request context
request_shared(t) ==
    IF \E u \in Threads : ctx[u] # NoContext
    THEN ctx[CHOOSE u \in Threads : ctx[u] # NoContext] ELSE ctx[t]
request(t) == ctx[t]

\* the view returned or raised: the response goes out, context and locals go
Finish(t, response) ==
    /\ conn' = [conn EXCEPT ![t].response = response]
    /\ ctx' = [ctx EXCEPT ![t] = NoContext]
    /\ frames' = [frames EXCEPT ![t] = Idle]

\* a worker that is not in a view takes the next request of its client
Accept(t) ==
    /\ pc = "serving"
    /\ frames[t] = Idle
    /\ trace' = [trace EXCEPT ![t] = <<>>]

\* lines 54-86
HomeDocument ==
    [project_name |-> "Care Insight",
     version |-> "1.0.0",
     parameters |-> {"input1", "input2", "input3"},
     example_request |-> Json3("input1", "input2", "input3",
                               Str(<<"brca1">>), Str(<<"v600e">>), Str(<<"cancer">>)),
     example_response |-> [prediction |-> 1,
                           treatment |-> TreatmentMapLiteral[1].text,
                           url |-> TreatmentMapLiteral[1].url]]

home(t) ==
    /\ Accept(t)
    /\ conn' = [conn EXCEPT ![t] = [request |-> HomeRequest,
                                    response |-> Response(HomeDocument)]]
    /\ UNCHANGED <<disk, pc, globals, loads, ctx, frames>>

\* lines 114-117
health_check(t) ==
    /\ Accept(t)
    /\ conn' = [conn EXCEPT ![t] = [request |-> HealthRequest,
                                    response |-> Response([status |-> "ok"])]]
    /\ UNCHANGED <<disk, pc, globals, loads, ctx, frames>>

\* POST /predict arrives: the context is pushed and predict() entered
BeginPredict(t, json) ==
    /\ Accept(t)
    /\ conn' = [conn EXCEPT ![t] = [request |-> PredictRequest(json), response |-> Pending]]
    /\ ctx' = [ctx EXCEPT ![t] = PredictRequest(json)]
    /\ frames' = [frames EXCEPT ![t] = NewFrame]
    /\ UNCHANGED <<disk, pc, globals, loads>>

At(t, line) == pc = "serving" /\ frames[t].pc = line

\* line 90
ReadGene(t) ==
    /\ At(t, "L90")
    /\ frames' = [frames EXCEPT ![t].gene = DictGet(request(t).json, "gene", None),
                                ![t].pc = "L91"]
    /\ UNCHANGED <<disk, pc, globals, loads, ctx, conn, trace>>

\* line 91
ReadVariation(t) ==
    /\ At(t, "L91")
    /\ frames' = [frames EXCEPT ![t].variation = DictGet(request(t).json, "variation", None),
                                ![t].pc = "L92"]
    /\ UNCHANGED <<disk, pc, globals, loads, ctx, conn, trace>>

\* line 92
ReadText(t) ==
    /\ At(t, "L92")
    /\ frames' = [frames EXCEPT ![t].text = DictGet(request(t).json, "text", None),
                                ![t].pc = "L95"]
    /\ UNCHANGED <<disk, pc, globals, loads, ctx, conn, trace>>

\* one statement `local = callee(arg)`: the call is made once; its value is
\* bound and control moves on, or its exception leaves the view
CallStep(t, callee, arg, res, local, next) ==
    /\ trace' = [trace EXCEPT ![t] = Append(@, Call(callee, arg, res))]
    /\ IF res.ok
       THEN /\ frames' = [frames EXCEPT ![t] = [@ EXCEPT ![local] = res.value,
                                                         !.pc = next]]
            /\ UNCHANGED <<ctx, conn>>
       ELSE Finish(t, ServerError(res.exc))

\* line 95
EncodeGene(t) ==
    /\ At(t, "L95")
    /\ CallStep(t, "gene_vectorizer", frames[t].gene,
                Transform(gene_vectorizer, frames[t].gene), "gene_vector", "L96")
    /\ UNCHANGED <<disk, pc, globals, loads>>

\* line 96
EncodeVariation(t) ==
    /\ At(t, "L96")
    /\ CallStep(t, "variation_vectorizer", frames[t].variation,
                Transform(variation_vectorizer, frames[t].variation),
                "variation_vector", "L97")
    /\ UNCHANGED <<disk, pc, globals, loads>>

\* line 97, with a vectorizer that keeps learning from the requests
EncodeTextOnline(t) ==
    /\ At(t, "L97")
    /\ text_vectorizer' = PartialFit(text_vectorizer, frames[t].text)
    /\ CallStep(t, "text_vectorizer", frames[t].text,
                Transform(text_vectorizer, frames[t].text), "text_vector", "L98")
    /\ UNCHANGED <<disk, pc, model, gene_vectorizer, variation_vectorizer,
                   treatment_map, loads>>

\* line 97
EncodeText(t) ==
    /\ At(t, "L97")
    /\ CallStep(t, "text_vectorizer", frames[t].text,
                Transform(text_vectorizer, frames[t].text), "text_vector", "L98")
    /\ UNCHANGED <<disk, pc, globals, loads>>

\* line 98
Stack(t) ==
    /\ At(t, "L98")
    /\ frames' = [frames EXCEPT
                    ![t].input_vector = Assemble(frames[t].gene_vector,
                                                 frames[t].variation_vector,
                                                 frames[t].text_vector),
                    ![t].pc = "L101"]
    /\ UNCHANGED <<disk, pc, globals, loads, ctx, conn, trace>>

\* line 101 wrapped in try/except with a default label
ClassifyCaught(t) ==
    /\ At(t, "L101")
    /\ LET res == ModelPredict(model, frames[t].input_vector)
       IN /\ trace' = [trace EXCEPT ![t] =
                          Append(@, Call("model", frames[t].input_vector, res))]
          /\ frames' = [frames EXCEPT
                          ![t].prediction = IF res.ok THEN res.value[1] ELSE 0,
                          ![t].pc = "L104"]
    /\ UNCHANGED <<disk, pc, globals, loads, ctx, conn>>

\* line 101: model.predict(input_vector)[0]
Classify(t) ==
    /\ At(t, "L101")
    /\ LET res == ModelPredict(model, frames[t].input_vector)
       IN CallStep(t, "model", frames[t].input_vector,
                   IF res.ok THEN Ok(res.value[1]) ELSE res, "prediction", "L104")
    /\ UNCHANGED <<disk, pc, globals, loads>>

\* lines 104-112
ResponseBody(tm, prediction) ==
    LET treatment_info == DictGet(tm, prediction, EmptyDict)
        treatment_text == DictGet(treatment_info, "text", "No recommendation available")
        treatment_url == DictGet(treatment_info, "url", "#")
    IN [prediction |-> prediction, treatment |-> treatment_text, url |-> treatment_url]

\* lines 104-112 with treatment_map[prediction] in place of get: KeyError
RespondIndexed(t) ==
    /\ At(t, "L104")
    /\ IF frames[t].prediction \in DOMAIN treatment_map
       THEN Finish(t, Response(ResponseBody(treatment_map, frames[t].prediction)))
       ELSE Finish(t, ServerError("KeyError"))
    /\ UNCHANGED <<disk, pc, globals, loads, trace>>

\* lines 104-112 with setdefault in place of get on the table
RespondSetdefault(t) ==
    /\ At(t, "L104")
    /\ Finish(t, Response(ResponseBody(treatment_map, frames[t].prediction)))
    /\ treatment_map' = IF frames[t].prediction \in DOMAIN treatment_map
                        THEN treatment_map
                        ELSE treatment_map @@ (frames[t].prediction :> EmptyDict)
    /\ UNCHANGED <<disk, pc, model, gene_vectorizer, variation_vectorizer,
                   text_vectorizer, loads, trace>>

\* lines 104-112
Respond(t) ==
    /\ At(t, "L104")
    /\ Finish(t, Response(ResponseBody(treatment_map, frames[t].prediction)))
    /\ UNCHANGED <<disk, pc, globals, loads, trace>>

predict(t) ==
    \/ ReadGene(t)
    \/ ReadVariation(t)
    \/ ReadText(t)
    \/ EncodeGene(t)
    \/ EncodeVariation(t)
    \/ EncodeText(t)
    \/ Stack(t)
    \/ Classify(t)
    \/ Respond(t)

Startup ==
    \/ LoadModel
    \/ LoadGeneVectorizer
    \/ LoadVariationVectorizer
    \/ LoadTextVectorizer
    \/ BuildTreatmentMap
    \/ RunApp

Next ==
    \/ Startup
    \/ \E t \in Threads :
         \/ home(t)
         \/ health_check(t)
         \/ \E json \in Payloads : BeginPredict(t, json)
         \/ predict(t)

Spec == Init /\ [][Next]_vars

(***************************************************************************)
(* Properties                                                              *)
(***************************************************************************)
IsPredict(t) == conn[t].request.path = "/predict"
Answered(t) == conn[t].response # Pending
Succeeded(t) == IsPredict(t) /\ conn[t].response.status = 200
Json(t) == conn[t].request.json
AllPresent(json) == ReadKeys \subseteq DOMAIN json
Calls(t, callee) == {i \in 1..Len(trace[t]) : trace[t][i].callee = callee}
Row(res) == res.value[1]

\* C1: when gene, variation and text are all present, the matrix handed to
\* the classifier has one row, which is the gene vectorizer's output for
\* the gene field, then the variation vectorizer's for the variation field,
\* then the text vectorizer's for the text field; its column count is the sum
\* of the three vocabulary sizes whatever the fields contain.
C1_FeatureVectorOrder ==
    \A t \in Threads :
        (IsPredict(t) /\ AllPresent(Json(t))) =>
            /\ \A i \in Calls(t, "model") :
                 /\ Len(trace[t][i].arg) = 1
                 /\ trace[t][i].arg[1] =
                       Row(Transform(gene_vectorizer, Json(t).gene))
                       \o Row(Transform(variation_vectorizer, Json(t).variation))
                       \o Row(Transform(text_vectorizer, Json(t).text))
                 /\ Len(trace[t][i].arg[1]) =
                       Width(gene_vectorizer) + Width(variation_vectorizer)
                       + Width(text_vectorizer)
            /\ frames[t].pc \in {"L101", "L104"} =>
                 /\ Len(frames[t].input_vector[1]) =
                       Width(gene_vectorizer) + Width(variation_vectorizer)
                       + Width(text_vectorizer)
                 /\ frames[t].gene_vector =
                       Transform(gene_vectorizer, Json(t).gene).value
                 /\ frames[t].variation_vector =
                       Transform(variation_vectorizer, Json(t).variation).value
                 /\ frames[t].text_vector =
                       Transform(text_vectorizer, Json(t).text).value

C1_Witness ==
    \E t \in Threads :
        /\ IsPredict(t)
        /\ Json(t) = Json3("gene", "variation", "text",
                           Str(<<"brca1">>), Str(<<>>), Str(<<"cancer", "history">>))
        /\ Calls(t, "model") # {}
        /\ Succeeded(t)

\* The nine records as the interface section of the design lists them
\* (each URL is named there by its host or article id).
Listed ==
    << <<"Standard therapy; consider immunotherapy or PARP inhibitors if BRCA-mutated.",
         "https://www.ncbi.nlm.nih.gov/pmc/articles/PMC7405942/">>,
       <<"Targeted therapy (e.g., kinase inhibitors); if unavailable, use conventional therapy.",
         "https://www.cancer.gov/about-cancer/treatment/types/targeted-therapies">>,
       <<"Neutral mutation; follow standard treatment protocols.",
         "https://www.ncbi.nlm.nih.gov/pmc/articles/PMC4640069/">>,
       <<"Confirmed Loss-of-Function; standard care or synthetic lethality strategies.",
         "https://www.nature.com/articles/nrc.2016.128">>,
       <<"Likely neutral; treat based on tumor type and stage.",
         "https://www.ncbi.nlm.nih.gov/pmc/articles/PMC8806427/">>,
       <<"Uncertain significance; do not change treatment, monitor patient.",
         "https://www.ncbi.nlm.nih.gov/pmc/articles/PMC6947910/">>,
       <<"Confirmed Gain-of-Function; apply targeted inhibitors if available.",
         "https://www.ncbi.nlm.nih.gov/pmc/articles/PMC6231376/">>,
       <<"Likely Switch-of-Function; consider experimental or standard therapy.",
         "https://www.ncbi.nlm.nih.gov/pmc/articles/PMC6950540/">>,
       <<"Confirmed Switch-of-Function; use available neomorphic-targeted drugs.",
         "https://www.frontiersin.org/articles/10.3389/fgene.2022.909402/full">> >>

\* the label the classifier returned for the request of thread t
Labels(t) == {trace[t][i].ret : i \in {j \in Calls(t, "model") : trace[t][j].ok}}

\* C2: when the classifier returns a label in 1..9, the response carries
\* that label as prediction and the listed advisory text and URL of that
\* same label as treatment and url.
C2_ListedRecord ==
    \A t \in Threads : \A l \in Labels(t) :
        (l \in 1..9 /\ Answered(t)) =>
            /\ conn[t].response.status = 200
            /\ conn[t].response.body.prediction = l
            /\ conn[t].response.body.treatment = Listed[l][1]
            /\ conn[t].response.body.url = Listed[l][2]

C2_Witness ==
    \E t \in Threads :
        /\ Succeeded(t)
        /\ 8 \in Labels(t)
        /\ conn[t].response.body.prediction = 8

\* C3: when the classifier returns a label outside 1..9, the lookup does
\* not fail: the request is answered with status 200, that label, the text
\* "No recommendation available" and the URL "#".
C3_Fallback ==
    \A t \in Threads : \A l \in Labels(t) :
        (l \notin 1..9 /\ Answered(t)) =>
            conn[t].response =
                Response([prediction |-> l,
                          treatment |-> "No recommendation available",
                          url |-> "#"])

C3_Witness ==
    \E t \in Threads :
        /\ Succeeded(t)
        /\ 10 \in Labels(t)
        /\ conn[t].response.body.url = "#"

\* C4: a predict request that lacks one of gene, variation, text is
\* answered with a client error (4xx); None is never handed to a vectorizer
\* and the request is never answered with a prediction.
C4_MissingFieldRejected ==
    \A t \in Threads :
        (IsPredict(t) /\ ~AllPresent(Json(t))) =>
            /\ \A i \in 1..Len(trace[t]) : trace[t][i].arg # None
            /\ Answered(t) => conn[t].response.status \in 400..499

\* C5: a request with string fields input1, input2, input3, as the
\* documentation page describes it, has input1 encoded as the gene, input2
\* as the variation and input3 as the text, and is answered with status 200.
C5_DocumentedFieldsEncoded ==
    \A t \in Threads :
        (IsPredict(t) /\ DOMAIN Json(t) = HomeDocument.parameters) =>
            /\ \A i \in Calls(t, "gene_vectorizer") : trace[t][i].arg = Json(t).input1
            /\ \A i \in Calls(t, "variation_vectorizer") : trace[t][i].arg = Json(t).input2
            /\ \A i \in Calls(t, "text_vectorizer") : trace[t][i].arg = Json(t).input3
            /\ Answered(t) => conn[t].response.status = 200

\* C6: each artifact is loaded at most once; a request of any kind is only
\* ever taken once all four artifacts have been loaded, exactly once each,
\* and are bound to the globals; if any artifact is missing or corrupt the
\* process never serves and no request is ever handled.
Touched(t) == conn[t] # NoConn \/ frames[t] # Idle \/ ctx[t] # NoContext
C6_NoPartialService ==
    /\ \A f \in Files : loads[f] <= 1
    /\ \A t \in Threads :
          Touched(t) =>
              /\ \A f \in Files : loads[f] = 1 /\ disk[f] # Missing
              /\ model = disk["svm_model.pkl"]
              /\ gene_vectorizer = disk["gene_vector.pkl"]
              /\ variation_vectorizer = disk["variation_vector.pkl"]
              /\ text_vectorizer = disk["text_vector.pkl"]
    /\ (\E f \in Files : disk[f] = Missing) =>
          /\ pc # "serving"
          /\ \A t \in Threads : ~Touched(t)
    /\ pc = "exited" => \E f \in Files : disk[f] = Missing /\ loads[f] = 1

\* startup failed on the last artifact, after three had been loaded
C6_Witness ==
    /\ pc = "exited"
    /\ model # Unbound
    /\ gene_vectorizer # Unbound
    /\ variation_vectorizer # Unbound
    /\ text_vectorizer = Unbound
    /\ \A t \in Threads : ~Touched(t)

\* C7: while serving, the classifier, the three vectorizers and the table
\* are what startup made them, whatever requests have succeeded or failed;
\* once a request is answered its context and its locals are gone.
C7_GlobalsFrozen ==
    pc = "serving" =>
        /\ model = disk["svm_model.pkl"]
        /\ gene_vectorizer = disk["gene_vector.pkl"]
        /\ variation_vectorizer = disk["variation_vector.pkl"]
        /\ text_vectorizer = disk["text_vector.pkl"]
        /\ treatment_map = TreatmentMapLiteral
        /\ \A t \in Threads :
              Answered(t) => frames[t] = Idle /\ ctx[t] = NoContext

\* one worker has answered a prediction with the fallback record, the other
\* has answered a failed request
C7_Witness ==
    \E t, u \in Threads :
        /\ Succeeded(t)
        /\ conn[t].response.body.prediction \notin 1..9
        /\ IsPredict(u)
        /\ conn[u].response.status = 500

\* C8: in one predict request each vectorizer and the classifier is called
\* at most once; a call that fails (a column count other than the
\* classifier's included) is the last call of the request, which is then
\* answered with an error carrying no prediction; an answer with status 200
\* comes after four successful calls and carries exactly prediction,
\* treatment and url.
C8_NoRetryNoRecovery ==
    \A t \in Threads :
        IsPredict(t) =>
            /\ \A c \in {"gene_vectorizer", "variation_vectorizer", "text_vectorizer", "model"} :
                 Cardinality(Calls(t, c)) <= 1
            /\ \A i \in Calls(t, "model") :
                 Len(trace[t][i].arg[1]) # model.n_features_in => ~trace[t][i].ok
            /\ \A i \in 1..Len(trace[t]) :
                 ~trace[t][i].ok =>
                     /\ i = Len(trace[t])
                     /\ frames[t] = Idle
                     /\ conn[t].response.status = 500
                     /\ "body" \notin DOMAIN conn[t].response
            /\ conn[t].response.status = 200 =>
                 /\ Len(trace[t]) = 4
                 /\ \A i \in 1..4 : trace[t][i].ok
                 /\ DOMAIN conn[t].response.body = {"prediction", "treatment", "url"}

\* the classifier rejected the column count of a fully encoded request
C8_Witness ==
    \E t \in Threads :
        /\ IsPredict(t)
        /\ Len(trace[t]) = 4
        /\ ~trace[t][4].ok
        /\ Len(trace[t][4].arg[1]) # model.n_features_in
        /\ conn[t].response.status = 500

\* predict() run on its own against the artifacts on disk
Alone(json) ==
    LET gene == DictGet(json, "gene", None)
        variation == DictGet(json, "variation", None)
        text == DictGet(json, "text", None)
        g == Transform(disk["gene_vector.pkl"], gene)
        v == Transform(disk["variation_vector.pkl"], variation)
        x == Transform(disk["text_vector.pkl"], text)
        p == ModelPredict(disk["svm_model.pkl"], Assemble(g.value, v.value, x.value))
    IN IF ~g.ok THEN ServerError(g.exc)
       ELSE IF ~v.ok THEN ServerError(v.exc)
       ELSE IF ~x.ok THEN ServerError(x.exc)
       ELSE IF ~p.ok THEN ServerError(p.exc)
       ELSE Response(ResponseBody(TreatmentMapLiteral, p.value[1]))

\* C9: however the steps of the in-flight predict requests interleave, the
\* raw fields a worker holds are those of its own request, and its answer
\* is the answer that request gets when it runs on its own.
C9_Isolation ==
    \A t \in Threads :
        IsPredict(t) =>
            /\ frames[t] # Idle =>
                 /\ frames[t].gene \in {Unbound, DictGet(Json(t), "gene", None)}
                 /\ frames[t].variation \in {Unbound, DictGet(Json(t), "variation", None)}
                 /\ frames[t].text \in {Unbound, DictGet(Json(t), "text", None)}
            /\ Answered(t) => conn[t].response = Alone(Json(t))

\* two requests with different inputs in flight together, one about to be
\* answered while the other is about to be classified
C9_Witness ==
    \E t, u \in Threads :
        /\ t # u
        /\ frames[t].pc = "L104"
        /\ frames[u].pc = "L101"
        /\ Json(t) # Json(u)
        /\ AllPresent(Json(u))

\* C10: two answered predict requests with the same gene, variation and
\* text carry the same answer, whatever has been handled around them.
C10_Deterministic ==
    \A t, u \in Threads :
        (/\ IsPredict(t) /\ Answered(t)
         /\ IsPredict(u) /\ Answered(u)
         /\ AllPresent(Json(t))
         /\ Json(t) = Json(u)) =>
            conn[t].response = conn[u].response

C10_Witness ==
    \E t, u \in Threads :
        /\ t # u
        /\ Succeeded(t) /\ Succeeded(u)
        /\ Json(t) = Json(u)
        /\ Json(t).text = Str(<<"cancer", "history">>)
        /\ conn[t].response = conn[u].response

====
